---- MODULE Spec2Model ----
(***************************************************************************)
(* Model of vitaliysmirnov/watchdog_backup.                                *)
(*                                                                         *)
(* The repository holds two programs that mirror source directories onto a *)
(* removable volume:                                                       *)
(*   src/watchdog_backup.py  scheduled job(), copy_files() with the        *)
(*                           .last_copy_time marker and three backends     *)
(*                           (robocopy, rsync, the pure Python walker);    *)
(*   src/main.py             BackupManager: the Connected/Disconnected     *)
(*                           polling loop and sync_directories().          *)
(*                                                                         *)
(* Specifications:                                                         *)
(*   Spec        watchdog_backup.py: job() and copy_files() on the pairs,  *)
(*               interleaved with changes of the source tree;              *)
(*   SpecMain    main.py: the polling loop of main();                      *)
(*   SpecPolicy  the two walking copies applied once to source and         *)
(*               destination trees drawn from bounded sets.                *)
(***************************************************************************)
EXTENDS Integers, Sequences, FiniteSets, TLC

VARIABLES
    clock,      \* the filesystem's timestamp source (mtime of a write made now)
    src,        \* src[p]: the source tree of pair p
    dst,        \* dst[p]: the destination tree of pair p (without the marker)
    marker,     \* marker[p]: content of <dst>/.last_copy_time
    mounted,    \* a volume carrying the configured label is mounted
    platform,   \* platform.system(): "Windows" or "Other"
    avail,      \* cached tool probes: [robocopy, rsync]
    wpc,        \* watchdog_backup.py: position of the process
    pairs,      \* watchdog_backup.py: config['copy_pairs'], the pairs in configured order
    wcur,       \* watchdog_backup.py: index in pairs of the pair job() is at (0: none)
    last,       \* watchdog_backup.py: what the last copy_files call observed and did
    quiet,      \* quiet[p]: nothing outside changed pair p since copy_files last scanned it
    calm,       \* calm[p]: a success is recorded in the marker of pair p and nothing
                \* outside changed the pair since ("rec"), nor since the scan of the
                \* call that recorded it ("full"); "no" otherwise
    env,        \* changes made from outside so far
    drive_connected,    \* main.py: BackupManager.drive_connected
    last_sync_time,     \* main.py: BackupManager.last_sync_time
    now,        \* main.py: time.time(), in seconds
    mpc,        \* main.py: "off" (not started), "loop" (in while True), "ended"
    mlast,      \* main.py: what the last pass of the loop observed and did
    pol,        \* one application of a walking copy: what it found and what it copied
    vol,        \* one volume lookup: the label, the volumes listed, what it returned
    rlog,       \* the working directory: robocopy.log and its archives
    ext,        \* the service and the external tool it waits for
    alog        \* the log directory of main.py: the log, its archives, the date

\* the state of watchdog_backup.py and of the filesystem
wvars == <<clock, src, dst, marker, mounted, platform, avail, pairs, wpc, wcur, last, quiet, calm, env>>
\* the state of main.py
mvars == <<drive_connected, last_sync_time, now, mpc, mlast>>
ovars == <<vol, rlog, ext, alog>>
vars == <<wvars, mvars, pol, ovars>>

----------------------------------------------------------------------------
(* Bounds of the model *)

\* largest timestamp the filesystem clock reaches
MaxTime == 2

(* The source -> destination pairs a configuration can name *)
NPairs == 2
Pairs == 1..NPairs

Times == 0..MaxTime

(* The shape of every tree: files a, b in the root, c in the sub-directory. *)
Files == {"a", "b", "c"}
Dirs == {"root", "sub"}
DirOf(f) == IF f = "c" THEN "sub" ELSE "root"
FilesIn(d) == {f \in Files : DirOf(f) = d}

(* File contents, and os.path.getsize of each. "part" is what an interrupted *)
(* shutil.copy2 leaves behind.                                              *)
Datas == {"x", "y", "z"}
Size(data) == CASE data = "x" -> 1 [] data = "y" -> 1 [] data = "z" -> 2 [] OTHER -> 0

NoFile == [here |-> FALSE, mtime |-> 0, data |-> "x"]
MkFile(t, d) == [here |-> TRUE, mtime |-> t, data |-> d]
FileStates == {NoFile} \cup {MkFile(t, d) : t \in Times, d \in Datas}

\* lexicographic order of two sequences of names of the same length
Rank(e) == CASE e = "a" -> 1 [] e = "b" -> 2 [] e = "c" -> 3 [] OTHER -> 4
RECURSIVE Less(_, _)
Less(s1, s2) ==
    IF s1 = <<>> THEN FALSE
    ELSE IF Rank(Head(s1)) # Rank(Head(s2)) THEN Rank(Head(s1)) < Rank(Head(s2))
    ELSE Less(Tail(s1), Tail(s2))

Max(a, b) == IF a >= b THEN a ELSE b

RECURSIVE MaxOver(_, _)
MaxOver(S, m) ==
    IF S = {} THEN m
    ELSE LET x == CHOOSE y \in S : TRUE IN MaxOver(S \ {x}, Max(m, x))

----------------------------------------------------------------------------
(* The marker file: text holding str(current_mtime), read back with float() *)

NoMarker == [kind |-> "absent", val |-> 0]
Garbage == [kind |-> "garbage", val |-> 0]
Locked == [kind |-> "locked", val |-> 0]
\* f.write(str(current_mtime))
FormatMtime(t) == [kind |-> "text", val |-> t]
\* float(f.read()): fails on a file that holds no number
ParseMarker(m) == [ok |-> m.kind = "text", val |-> m.val]

----------------------------------------------------------------------------
(* get_dir_mtime(path) *)

\* files of source tree S whose getmtime succeeds during os.walk
Scanned(S) == {f \in Files : S.f[f].here /\ f \notin S.unread}

\* as get_dir_mtime, looking at the files of the top directory only
get_dir_mtimeTopOnly(S) ==
    IF ~S.exists THEN 0
    ELSE MaxOver({S.f[f].mtime : f \in Scanned(S) \cap FilesIn("root")}, S.dmtime)

get_dir_mtime(S) ==
    IF ~S.exists THEN 0
    ELSE MaxOver({S.f[f].mtime : f \in Scanned(S)}, S.dmtime)

----------------------------------------------------------------------------
(* copy_with_python(src, dst, logger): the fallback walker *)

\* what shutil.copy2 leaves when it fails after opening the destination
Partial(t) == [here |-> TRUE, mtime |-> t, data |-> "part"]

(* A walk's faults: the system call that raises in each directory level, if *)
(* any. An exception ends the level it is raised in, so one fault per level *)
(* covers every set of failing calls.                                       *)
FaultKinds == {"stat", "copy", "copypart"}
\* the calls the walk of directory d makes, from source S to destination D
FaultsOf(S, D, d) ==
    {<<"none", d>>, <<"listdir", d>>}
        \cup (IF d \in D.dirs THEN {} ELSE {<<"mkdir", d>>})
        \cup {<<"stat", f>> : f \in {g \in FilesIn(d) : S.f[g].here /\ D.f[g].here}}
        \cup {<<k, f>> : k \in {"copy", "copypart"},
                         f \in {g \in FilesIn(d) : S.f[g].here}}
\* the fault plans of a walk from source tree S to destination D
FaultPlans(S, D) ==
    {fp \in [Dirs -> UNION {FaultsOf(S, D, d) : d \in Dirs}] :
        \A d \in Dirs : fp[d] \in FaultsOf(S, D, d)}
NoFaults == [d \in Dirs |-> <<"none", d>>]

(* os.listdir returns the entries in arbitrary order: the orders of the     *)
(* names a, b, sub of the root (c is the one entry of sub).                 *)
AllOrders ==
    {<<"a", "b", "sub", "c">>, <<"a", "sub", "b", "c">>, <<"b", "a", "sub", "c">>,
     <<"b", "sub", "a", "c">>, <<"sub", "a", "b", "c">>, <<"sub", "b", "a", "c">>}

\* os.listdir(src) of directory d of source tree S, in the order given
Entries(S, d, order) ==
    LET Listed(e) == IF e \in Dirs THEN d = "root" /\ e = "sub"
                     ELSE DirOf(e) = d /\ S.f[e].here
    IN SelectSeq(order, Listed)

\* one order for every listing os.listdir can return of the root of S
Orders(S) ==
    {o \in AllOrders :
        \A o2 \in AllOrders :
            Entries(S, "root", o2) = Entries(S, "root", o) => o2 = o \/ Less(o, o2)}

\* lines 245-247: the per-file test of the walker
NeedCopyPythonNewerOrEqual(s, d) ==
    \/ ~d.here
    \/ s.mtime >= d.mtime
    \/ Size(s.data) # Size(d.data)

NeedCopyPython(s, d) ==
    \/ ~d.here
    \/ s.mtime > d.mtime
    \/ Size(s.data) # Size(d.data)

RECURSIVE copy_with_python(_, _, _, _, _, _)
RECURSIVE WalkEntries(_, _, _, _, _, _, _)

(* The for loop of lines 236-254 over the entries of directory dir; acc is  *)
(* [dst, copied, skipped, raised, failed, did].                             *)
WalkEntries(S, dir, entries, acc, order, fp, t) ==
    IF entries = <<>> \/ acc.raised THEN acc
    ELSE LET e == Head(entries)
             rest == Tail(entries)
         IN IF e \in Dirs
            THEN LET r == copy_with_python(S, acc.dst, e, order, fp, t)
                 IN WalkEntries(S, dir, rest,
                        [acc EXCEPT !.dst = r.dst,
                                    !.copied = @ + r.copied,
                                    !.skipped = @ + r.skipped,
                                    !.failed = @ \cup r.failed,
                                    !.did = @ \cup r.did],
                        order, fp, t)
            ELSE LET s == S.f[e]
                     d == acc.dst.f[e]
                     unreadable == e \in S.unread
                 IN IF d.here /\ (unreadable \/ fp[dir] = <<"stat", e>>)
                    THEN \* getmtime or getsize raises
                         [acc EXCEPT !.raised = TRUE]
                    ELSE IF NeedCopyPython(s, d)
                    THEN IF unreadable \/ fp[dir] = <<"copy", e>>
                         THEN [acc EXCEPT !.raised = TRUE]
                         ELSE IF fp[dir] = <<"copypart", e>>
                         THEN [acc EXCEPT !.raised = TRUE, !.dst.f[e] = Partial(t)]
                         ELSE WalkEntries(S, dir, rest,
                                  [acc EXCEPT !.dst.f[e] = s,
                                              !.copied = @ + 1,
                                              !.did = @ \cup {e}],
                                  order, fp, t)
                    ELSE WalkEntries(S, dir, rest,
                             [acc EXCEPT !.skipped = @ + 1], order, fp, t)

(* Result: the destination after the walk, the returned counts, the levels  *)
(* that ended in the except clause (failed) and the files copy2 copied.     *)
copy_with_python(S, D, dir, order, fp, t) ==
    LET mk == dir \notin D.dirs
        mkFails == mk /\ fp[dir] = <<"mkdir", dir>>
        D1 == IF mk /\ ~mkFails THEN [D EXCEPT !.dirs = @ \cup {dir, "root"}] ELSE D
        early == mkFails \/ ~S.exists \/ fp[dir] = <<"listdir", dir>>
        acc0 == [dst |-> D1, copied |-> 0, skipped |-> 0, raised |-> FALSE,
                 failed |-> {}, did |-> {}]
        r == WalkEntries(S, dir, Entries(S, dir, order), acc0, order, fp, t)
    IN IF early
       THEN [dst |-> D1, copied |-> 0, skipped |-> 0, failed |-> {dir}, did |-> {}]
       ELSE IF r.raised
       THEN [dst |-> r.dst, copied |-> 0, skipped |-> 0,
             failed |-> r.failed \cup {dir}, did |-> r.did]
       ELSE [dst |-> r.dst, copied |-> r.copied, skipped |-> r.skipped,
             failed |-> r.failed, did |-> r.did]

----------------------------------------------------------------------------
(* The external tools. The model takes from their documentation which files *)
(* their flags let them copy; which of those a run copies, and its exit     *)
(* status, are the tool's own.                                              *)

\* line 173: the largest robocopy exit status that is not an error
ROBOCOPY_OK_MAX == 7

\* exit statuses of an external tool the model draws
Rcs == {0, ROBOCOPY_OK_MAX, ROBOCOPY_OK_MAX + 1, ROBOCOPY_OK_MAX + 2}

\* robocopy /E /XO /XN: lonely files, and files of equal time and other size
RobocopyEligible(s, d) ==
    s.here /\ (~d.here \/ (s.mtime = d.mtime /\ Size(s.data) # Size(d.data)))

\* rsync -a --update: skips a file whose destination is newer
RsyncEligible(s, d) ==
    s.here /\ (\/ ~d.here
               \/ s.mtime > d.mtime
               \/ (s.mtime = d.mtime /\ Size(s.data) # Size(d.data)))

(* lines 169-170: robocopy /XF Thumbs.db *.tmp leaves out the files of such *)
(* a name: of the files followed here, "b" has one. (/XD leaves out the     *)
(* directories $RECYCLE.BIN and System Volume Information; "sub" is an      *)
(* ordinary directory.) rsync is run with no --exclude and the walker       *)
(* tests no name.                                                           *)
Junk == {"b"}

\* files a run of the backend may copy
Eligible(backend, S, D) ==
    {f \in Files :
        CASE backend = "robocopy" -> f \notin Junk /\ RobocopyEligible(S.f[f], D.f[f])
          [] backend = "rsync" -> RsyncEligible(S.f[f], D.f[f])
          [] OTHER -> S.f[f].here /\ NeedCopyPython(S.f[f], D.f[f])}

\* as ToolCopy, for a tool run as a mirror (robocopy /MIR, rsync --delete)
ToolCopyMirror(S, D, C) ==
    [dirs |-> D.dirs \cup {"root"} \cup {DirOf(f) : f \in C},
     f |-> [f \in Files |-> IF f \in C THEN S.f[f]
                            ELSE IF S.f[f].here THEN D.f[f] ELSE NoFile]]

\* the destination after files C were copied, times preserved
ToolCopy(S, D, C) ==
    IF C = {} THEN D
    ELSE [dirs |-> D.dirs \cup {"root"} \cup {DirOf(f) : f \in C},
          f |-> [f \in Files |-> IF f \in C THEN S.f[f] ELSE D.f[f]]]

\* a tool that ran to its end on an existing source has made the destination
ToolDone(S, D, C, o) ==
    LET D1 == ToolCopy(S, D, C)
    IN IF o[1] = "rc" /\ S.exists THEN [D1 EXCEPT !.dirs = @ \cup {"root"}] ELSE D1

ToolOutcomes == {<<"rc", n>> : n \in Rcs} \cup {<<"timeout", 0>>, <<"exc", 0>>}

(* What the tools' documentation says of a run that copied the files C of   *)
(* the eligible files E with outcome o. robocopy: exit status bit 1 is set  *)
(* when files were copied, bits 8 and 16 when a copy failed or the run      *)
(* could not start; rsync: status 0 when every transfer succeeded. A tool   *)
(* that could not be started (exc) copied nothing; one that hit the timeout *)
(* was killed wherever it was.                                              *)
RobocopyRun(S, E, C, o) ==
    /\ C \subseteq E
    /\ o[1] = "exc" => C = {}
    /\ o[1] = "rc" =>
          /\ (o[2] % 2 = 1) <=> (C # {})
          /\ (o[2] < 8) <=> (S.exists /\ C = E)

RsyncRun(S, E, C, o) ==
    /\ C \subseteq E
    /\ o[1] = "exc" => C = {}
    /\ o[1] = "rc" => ((o[2] = 0) <=> (S.exists /\ C = E))

\* lines 173-196: what copy_with_robocopy returns
\* as RobocopyResult, with only the statuses 0 and 1 taken for a success
RobocopyResultNoWarnings(o) == o[1] = "rc" /\ o[2] <= 1

RobocopyResult(o) == o[1] = "rc" /\ o[2] <= ROBOCOPY_OK_MAX

\* lines 213-225: what copy_with_rsync returns
\* as RsyncResult, with every exit status taken for a success
RsyncResultAnyStatus(o) == o[1] = "rc"

RsyncResult(o) == o[1] = "rc" /\ o[2] = 0

----------------------------------------------------------------------------
(* copy_files(src, dst, logger) *)

\* lines 288-299: the backend a copy attempt uses
\* as ChooseBackend, with rsync tried wherever it is installed
ChooseBackendRsyncAnywhere(plat, av) ==
    IF plat = "Windows" /\ av.robocopy THEN "robocopy"
    ELSE IF av.rsync THEN "rsync"
    ELSE "python"

ChooseBackend(plat, av) ==
    IF plat = "Windows" /\ av.robocopy THEN "robocopy"
    ELSE IF plat # "Windows" /\ av.rsync THEN "rsync"
    ELSE "python"

\* lines 272-282: the skip decision, from the scanned maximum and the marker
NeedCopyStrict(cm, m) ==
    ~(m.kind # "absent" /\ m.kind # "locked" /\ ParseMarker(m).ok
      /\ cm < ParseMarker(m).val)

NeedCopyIgnoreMarker(cm, m) == m.kind # "text"

\* as NeedCopy, skipping only when the scanned maximum equals the marker value
NeedCopyOnAnyChange(cm, m) ==
    ~(m.kind # "absent" /\ m.kind # "locked" /\ ParseMarker(m).ok
      /\ cm = ParseMarker(m).val)

NeedCopy(cm, m) ==
    ~(m.kind # "absent" /\ m.kind # "locked" /\ ParseMarker(m).ok
      /\ cm <= ParseMarker(m).val)

\* line 299: the walker's attempt counts as a success when it copied a file
PythonSuccess(copied) == copied > 0

\* files of the source that the per-file policy would copy to destination D
Needed(S, D) == {f \in Files : S.f[f].here /\ NeedCopyPython(S.f[f], D.f[f])}
\* files of the source whose destination is not the source file
Differs(S, D) == {f \in Files : S.f[f].here /\ D.f[f] # S.f[f]}
\* files whose destination changed
Touched(D0, D1) == {f \in Files : D0.f[f] # D1.f[f]}

NoCall ==
    [pair |-> 0, phase |-> "none", need |-> FALSE, cur |-> 0, before |-> NoMarker,
     backend |-> "none", outcome |-> <<"none", 0>>, success |-> FALSE,
     after |-> NoMarker, missed |-> {}, touched |-> {},
     failed |-> {}, copied |-> 0, write |-> "none"]

\* where copy_files' caller goes once the call on pair p returned
AfterCall(i) ==
    IF i < Len(pairs) THEN wpc' = "scan" /\ wcur' = i + 1
    ELSE wpc' = "sched" /\ wcur' = 0

\* copy_files is running on pair p
Running(p) == wcur \in 1..Len(pairs) /\ pairs[wcur] = p

(* Lines 264-284: scan the source, read the marker, decide. *)
Scan(p) ==
    /\ wpc = "scan" /\ Running(p)
    /\ LET cm == get_dir_mtime(src[p])
           need == NeedCopy(cm, marker[p])
       IN /\ last' = [NoCall EXCEPT !.pair = p, !.phase = IF need THEN "scanned" ELSE "done",
                                    !.need = need, !.cur = cm, !.before = marker[p],
                                    !.after = marker[p]]
          /\ IF need THEN wpc' = "copy" /\ wcur' = wcur ELSE AfterCall(wcur)
    /\ quiet' = [quiet EXCEPT ![p] = TRUE]
    /\ UNCHANGED <<clock, src, dst, marker, mounted, platform, avail, pairs, calm, env>>
    /\ UNCHANGED <<mvars, pol, ovars>>

\* lines 301-311: the marker after the attempt; w is how the write went
RecordAlways(m, D, success, cm, w) ==
    IF "root" \notin D.dirs \/ w = "openfail" THEN m
    ELSE IF w = "writefail" THEN Garbage
    ELSE FormatMtime(cm)

\* as Record, writing the maximum found in the source when the backend is done
RecordAtCompletion(m, D, success, cm, w) ==
    IF ~success THEN m
    ELSE IF "root" \notin D.dirs \/ w = "openfail" THEN m
    ELSE IF w = "writefail" THEN Garbage
    ELSE FormatMtime(get_dir_mtime(src[last.pair]))

Record(m, D, success, cm, w) ==
    IF ~success THEN m
    ELSE IF "root" \notin D.dirs \/ w = "openfail" THEN m
    ELSE IF w = "writefail" THEN Garbage
    ELSE FormatMtime(cm)

\* how open(last_copy_path, 'w') and f.write can go; nothing is written
\* after a failed attempt
WriteOutcomes == {"ok", "openfail", "writefail"}
WritesAfter(success) == IF success THEN WriteOutcomes ELSE {"ok"}

\* The end of a copy attempt: D1 is the destination the backend left.
Finish(p, backend, outcome, success, D1, failed, copied, w) ==
    /\ dst' = [dst EXCEPT ![p] = D1]
    /\ marker' = [marker EXCEPT ![p] = Record(marker[p], D1, success, last.cur, w)]
    /\ last' = [last EXCEPT !.phase = "done", !.backend = backend, !.outcome = outcome,
                            !.success = success, !.after = marker'[p],
                            !.missed = Needed(src[p], dst[p]) \cap Differs(src[p], D1),
                            !.touched = Touched(dst[p], D1),
                            !.failed = failed, !.copied = copied,
                            !.write = IF ~success THEN "none"
                                      ELSE IF "root" \notin D1.dirs THEN "openfail"
                                      ELSE w]
    /\ calm' = [calm EXCEPT ![p] =
                    IF success /\ marker'[p] = FormatMtime(last.cur)
                    THEN (IF quiet[p] THEN "full" ELSE "rec")
                    ELSE @]
    /\ AfterCall(wcur)
    /\ UNCHANGED <<clock, src, mounted, platform, avail, pairs, quiet, env>>
    /\ UNCHANGED <<mvars, pol, ovars>>

CopyRobocopy(p) ==
    /\ wpc = "copy" /\ Running(p)
    /\ ChooseBackend(platform, avail) = "robocopy"
    /\ \E o \in ToolOutcomes, C \in SUBSET Eligible("robocopy", src[p], dst[p]) :
       \E w \in WritesAfter(RobocopyResult(o)) :
          /\ src[p].exists \/ C = {}
          /\ RobocopyRun(src[p], Eligible("robocopy", src[p], dst[p]), C, o)
          /\ Finish(p, "robocopy", o, RobocopyResult(o), ToolDone(src[p], dst[p], C, o),
                    {}, Cardinality(C), w)

CopyRsync(p) ==
    /\ wpc = "copy" /\ Running(p)
    /\ ChooseBackend(platform, avail) = "rsync"
    /\ \E o \in ToolOutcomes, C \in SUBSET Eligible("rsync", src[p], dst[p]) :
       \E w \in WritesAfter(RsyncResult(o)) :
          /\ src[p].exists \/ C = {}
          /\ RsyncRun(src[p], Eligible("rsync", src[p], dst[p]), C, o)
          /\ Finish(p, "rsync", o, RsyncResult(o), ToolDone(src[p], dst[p], C, o),
                    {}, Cardinality(C), w)

CopyPython(p) ==
    /\ wpc = "copy" /\ Running(p)
    /\ ChooseBackend(platform, avail) = "python"
    /\ \E order \in Orders(src[p]), fp \in FaultPlans(src[p], dst[p]) :
          LET r == copy_with_python(src[p], dst[p], "root", order, fp, clock)
          IN \E w \in WritesAfter(PythonSuccess(r.copied)) :
                Finish(p, "python",
                       IF "root" \in r.failed THEN <<"exc", 0>> ELSE <<"rc", 0>>,
                       PythonSuccess(r.copied), r.dst, r.failed, r.copied, w)

(* KeyboardInterrupt while the backend runs: it is no Exception, so it      *)
(* leaves copy_files and job() and ends main() (lines 417-423). What the    *)
(* backend copied so far stays.                                             *)
Interrupt(p) ==
    /\ wpc = "copy" /\ Running(p)
    /\ \E C \in SUBSET Eligible(ChooseBackend(platform, avail), src[p], dst[p]) :
          /\ src[p].exists \/ C = {}
          /\ dst' = [dst EXCEPT ![p] = ToolCopy(src[p], dst[p], C)]
          /\ last' = [last EXCEPT !.phase = "done", !.backend = ChooseBackend(platform, avail),
                                  !.outcome = <<"interrupt", 0>>, !.success = FALSE,
                                  !.after = marker[p],
                                  !.missed = Needed(src[p], dst[p]) \cap Differs(src[p], dst'[p]),
                                  !.touched = Touched(dst[p], dst'[p])]
    /\ wpc' = "stopped" /\ wcur' = 0
    /\ UNCHANGED <<clock, src, marker, mounted, platform, avail, pairs, quiet, calm, env>>
    /\ UNCHANGED <<mvars, pol, ovars>>

----------------------------------------------------------------------------
(* job() and main() of watchdog_backup.py *)

\* lines 54-77: is_disk_connected; a listing error is logged and gives None
is_disk_connected(isMounted, listingFails) == isMounted /\ ~listingFails

\* lines 393-404: job() up to the first copy_files call
JobBody ==
    /\ \E isMounted \in BOOLEAN, listingFails \in BOOLEAN :
          IF is_disk_connected(isMounted, listingFails)
          THEN wpc' = "scan" /\ wcur' = 1
          ELSE wpc' = "sched" /\ wcur' = 0
    /\ last' = NoCall
    /\ UNCHANGED <<clock, src, dst, marker, mounted, platform, avail, pairs, quiet, calm, env>>
    /\ UNCHANGED <<mvars, pol, ovars>>

\* lines 375-410: main() reads the configuration and runs job() at once
Startup == wpc = "stopped" /\ JobBody

\* lines 413-415: schedule.run_pending() finds the job due
Job == wpc = "sched" /\ JobBody

----------------------------------------------------------------------------
(* The world around the program *)

\* changes from outside the model still makes
MaxEnv == 2
\* pairs and files whose source the outside changes
EnvPairs == {1}
EnvFiles == {"a", "c"}
\* files the outside makes unreadable
EnvUnread == {"c"}

\* no copy_files call is between its scan and its end on pair p
NotCopying(p) == ~(wpc = "copy" /\ Running(p))

Outside(p) ==
    /\ wpc \in {"sched", "copy"}
    /\ env < MaxEnv
    /\ env' = env + 1
    /\ quiet' = [quiet EXCEPT ![p] = FALSE]
    /\ calm' = [calm EXCEPT ![p] = "no"]
    /\ last' = IF wpc = "copy" THEN last ELSE NoCall
    /\ UNCHANGED <<mvars, pol, ovars>>

\* the timestamps a write made now can carry: the clock's, or its next
Stamps == {t \in {clock, clock + 1} : t <= MaxTime}

\* the content a write puts in place of content d
Rewrite(d) == CASE d = "x" -> "z" [] d = "z" -> "y" [] OTHER -> "x"

\* a file of the source is written (created or modified) now
WriteSrc(p, f, t) ==
    /\ src[p].exists
    /\ Outside(p)
    /\ clock' = t
    /\ src' = [src EXCEPT ![p].f[f] = MkFile(t, Rewrite(@.data)),
                          ![p].dmtime = IF ~src[p].f[f].here /\ DirOf(f) = "root"
                                        THEN t ELSE @]
    /\ UNCHANGED <<dst, marker, mounted, platform, avail, pairs, wpc, wcur>>

\* a file of the source is deleted now
DeleteSrc(p, f, t) ==
    /\ src[p].f[f].here
    /\ Outside(p)
    /\ clock' = t
    /\ src' = [src EXCEPT ![p].f[f] = NoFile,
                          ![p].unread = @ \ {f},
                          ![p].dmtime = IF DirOf(f) = "root" THEN t ELSE @]
    /\ UNCHANGED <<dst, marker, mounted, platform, avail, pairs, wpc, wcur>>

\* a file of the source stops or starts being readable
ToggleUnread(p, f) ==
    /\ src[p].f[f].here
    /\ Outside(p)
    /\ src' = [src EXCEPT ![p].unread = IF f \in @ THEN @ \ {f} ELSE @ \cup {f}]
    /\ UNCHANGED <<clock, dst, marker, mounted, platform, avail, pairs, wpc, wcur>>

\* the source directory is removed
RemoveSource(p) ==
    /\ src[p].exists
    /\ Outside(p)
    /\ src' = [src EXCEPT ![p] = [exists |-> FALSE, dmtime |-> 0,
                                  f |-> [f \in Files |-> NoFile], unread |-> {}]]
    /\ UNCHANGED <<clock, dst, marker, mounted, platform, avail, pairs, wpc, wcur>>

\* the marker is deleted, overwritten with text that is no number, or locked
DamageMarker(p, m) ==
    /\ NotCopying(p)
    /\ marker[p] # m
    /\ m.kind = "absent" \/ "root" \in dst[p].dirs
    /\ Outside(p)
    /\ marker' = [marker EXCEPT ![p] = m]
    /\ UNCHANGED <<clock, src, dst, mounted, platform, avail, pairs, wpc, wcur>>

Environment ==
    \/ \E p \in EnvPairs, f \in EnvFiles, t \in Stamps : WriteSrc(p, f, t)
    \/ \E p \in EnvPairs, f \in EnvFiles, t \in Stamps : DeleteSrc(p, f, t)
    \/ \E p \in EnvPairs, f \in EnvUnread : ToggleUnread(p, f)
    \/ \E p \in EnvPairs : RemoveSource(p)
    \/ \E p \in EnvPairs, m \in {NoMarker, Garbage, Locked} : DamageMarker(p, m)

----------------------------------------------------------------------------
(* Trees the specifications start from *)

\* a source directory holding the given files, all written at time 0
Tree0(files) ==
    [exists |-> TRUE, dmtime |-> 0,
     f |-> [f \in Files |-> IF f \in files THEN MkFile(0, "x") ELSE NoFile],
     unread |-> {}]
\* a destination that does not exist yet
EmptyDst == [dirs |-> {}, f |-> [f \in Files |-> NoFile]]

----------------------------------------------------------------------------
(* main.py: BackupManager and the loop of main() *)

\* line 10: seconds between two periodic passes
CHECK_INTERVAL == 30
\* line 289: time.sleep(5) at the end of every pass of the loop
POLL_SLEEP == 5
\* the loop is followed until time.time() reaches MaxNow
MaxNow == 45

\* lines 132-151: find_drive_path gives a path when a volume carries the label;
\* an exception while listing is logged and gives None
find_drive_path(isMounted, listingFails) == isMounted /\ ~listingFails

\* lines 153-161: check_drive_connection: the volume is found and every target
\* directory exists on it
check_drive_connection(found, D) ==
    found /\ \A i \in 1..Len(pairs) : "root" \in D[pairs[i]].dirs

\* lines 186-197: need_copy of one file; an OSError of os.stat asks for a copy
NeedCopyMain(s, d, statFails) ==
    \/ ~d.here
    \/ statFails
    \/ Size(s.data) # Size(d.data)
    \/ s.mtime > d.mtime

(* What goes wrong in one pair of a pass: per file the call that raises     *)
(* (os.stat, os.path.getsize, shutil.copy2 before or after it wrote), and   *)
(* the directories os.walk cannot list, which it leaves out silently.       *)
MainFaultsOf(S, D, f) ==
    {"none"} \cup (IF S.f[f].here THEN {"getsize", "copy", "copypart"} ELSE {})
             \cup (IF S.f[f].here /\ D.f[f].here THEN {"stat"} ELSE {})
MainPlans(S, D) ==
    {[k |-> [a |-> ka, b |-> kb, c |-> kc], skip |-> sk] :
        ka \in MainFaultsOf(S, D, "a"), kb \in MainFaultsOf(S, D, "b"),
        kc \in MainFaultsOf(S, D, "c"), sk \in {{}, {"sub"}, {"root", "sub"}}}
NoMainFaults == [k |-> [f \in Files |-> "none"], skip |-> {}]
\* the pairs whose pass meets faults
FaultPairs == {1}
\* the plans of one pass: one per pair
PassPlans(D) ==
    {[p \in Pairs |-> IF p \in FaultPairs THEN fp ELSE NoMainFaults] :
        fp \in UNION {MainPlans(src[p], D[p]) : p \in FaultPairs}}

\* lines 178-200: the file is put on files_to_copy
Listed(S, D, f, fp) ==
    /\ S.f[f].here /\ DirOf(f) \notin fp.skip
    /\ NeedCopyMain(S.f[f], D.f[f], fp.k[f] = "stat" \/ f \in S.unread)
    /\ ~(fp.k[f] = "getsize" \/ f \in S.unread)

\* lines 171-227: one pair of sync_directories, once os.makedirs(dst) returned
SyncPair(S, D, fp, t) ==
    [dirs |-> D.dirs \cup {"root"} \cup {DirOf(f) : f \in {g \in Files : Listed(S, D, g, fp)}},
     f |-> [f \in Files |->
              IF ~Listed(S, D, f, fp) \/ fp.k[f] = "copy" THEN D.f[f]
              ELSE IF fp.k[f] = "copypart" THEN Partial(t)
              ELSE S.f[f]]]

(* lines 163-231: sync_directories from the i-th pair on. A pair whose       *)
(* source is missing is skipped; os.makedirs(dst) is outside every try, so   *)
(* when it raises (pull = i: the volume went away before it) the exception   *)
(* leaves sync_directories. seen: the positions of the pairs the for loop    *)
(* reached.                                                                  *)
RECURSIVE sync_directories(_, _, _, _, _)
sync_directories(i, D, plans, pull, t) ==
    IF i > Len(pairs) THEN [dst |-> D, raised |-> FALSE, seen |-> {}]
    ELSE LET p == pairs[i]
             rest(D1) == LET r == sync_directories(i + 1, D1, plans, pull, t)
                         IN [r EXCEPT !.seen = @ \cup {i}]
         IN
         IF ~src[p].exists THEN rest(D)
         ELSE IF pull = i THEN [dst |-> D, raised |-> TRUE, seen |-> {i}]
         ELSE rest([D EXCEPT ![p] = SyncPair(src[p], D[p], plans[p], t)])

\* line 284-285: the periodic pass is due
IntervalElapsed(t, lst) == t - lst > CHECK_INTERVAL

\* lines 276-286: this pass of the loop calls sync_directories
PassRunsOnChange(cur, conn, t, lst) ==
    IF cur # conn THEN TRUE ELSE conn /\ IntervalElapsed(t, lst)
PassRuns(cur, conn, t, lst) ==
    IF cur # conn THEN cur ELSE conn /\ IntervalElapsed(t, lst)

\* no walking copy was applied yet; then: which walker ran (op), the destination
\* before it, the files it copied, and the files it examined and handled with no
\* I/O error (ok); for copy_with_python also the calls that raised (fp), the
\* directory levels that ended in the except clause and the returned count
NoPass == [op |-> "none", before |-> EmptyDst, copied |-> {}, ok |-> {},
           fp |-> NoFaults, failed |-> {}, count |-> 0]

NoPoll ==
    [found |-> FALSE, cur |-> FALSE, was |-> FALSE, ran |-> FALSE, raised |-> FALSE,
     at |-> 0, lst |-> 0, seen |-> {}]

\* lines 234-272: main() up to the loop
StartMain ==
    /\ mpc = "off"
    /\ mpc' = "loop"
    /\ UNCHANGED <<wvars, drive_connected, last_sync_time, now, mlast, pol, ovars>>

\* lines 273-289: one pass of the while True loop, with its sleep; an exception
\* of sync_directories ends main() (lines 291-293)
Poll ==
    /\ mpc = "loop"
    /\ now + POLL_SLEEP <= MaxNow
    /\ \E listingFails \in BOOLEAN :
          LET found == find_drive_path(mounted, listingFails)
              cur == check_drive_connection(found, dst)
              runs == PassRuns(cur, drive_connected, now, last_sync_time)
              note == [found |-> found, cur |-> cur, was |-> drive_connected,
                       ran |-> runs, raised |-> FALSE, at |-> now,
                       lst |-> last_sync_time, seen |-> {}]
          IN IF ~runs
             THEN /\ drive_connected' = cur
                  /\ now' = now + POLL_SLEEP
                  /\ mlast' = note
                  /\ UNCHANGED <<wvars, last_sync_time, mpc, pol, ovars>>
             ELSE \E pull \in 0..Len(pairs), plans \in PassPlans(dst) :
                    /\ LET res == sync_directories(1, dst, plans, pull, clock) IN
                       /\ dst' = res.dst
                       /\ mlast' = [note EXCEPT !.raised = res.raised, !.seen = res.seen]
                       /\ IF res.raised
                          THEN /\ mpc' = "ended"
                               /\ mounted' = FALSE
                               /\ UNCHANGED <<drive_connected, last_sync_time, now>>
                          ELSE /\ drive_connected' = cur
                               /\ last_sync_time' = now
                               /\ now' = now + POLL_SLEEP
                               /\ UNCHANGED <<mounted, mpc>>
                    /\ UNCHANGED <<clock, src, marker, platform, avail, pairs, wpc,
                                   wcur, last, quiet, calm, env, pol, ovars>>

(* The world around main.py *)

\* the volume is plugged in or pulled out
OutsideMain ==
    /\ mpc = "loop"
    /\ env < MaxEnv
    /\ env' = env + 1
    /\ UNCHANGED <<marker, platform, avail, pairs, wpc, wcur, last, quiet, calm, mvars, pol, ovars>>

Plug ==
    /\ OutsideMain
    /\ mounted' = ~mounted
    /\ UNCHANGED <<clock, src, dst>>

\* a target directory is created on the volume, or removed with what it holds
MakeTarget(p) ==
    /\ "root" \notin dst[p].dirs
    /\ OutsideMain
    /\ dst' = [dst EXCEPT ![p].dirs = {"root"}]
    /\ UNCHANGED <<clock, src, mounted>>

LoseTarget(p) ==
    /\ "root" \in dst[p].dirs
    /\ OutsideMain
    /\ dst' = [dst EXCEPT ![p] = EmptyDst]
    /\ UNCHANGED <<clock, src, mounted>>

\* a file of a source is written now
EditSrc(p, f, t) ==
    /\ src[p].exists
    /\ OutsideMain
    /\ clock' = t
    /\ src' = [src EXCEPT ![p].f[f] = MkFile(t, Rewrite(@.data)),
                          ![p].dmtime = IF ~src[p].f[f].here /\ DirOf(f) = "root"
                                        THEN t ELSE @]
    /\ UNCHANGED <<dst, mounted>>

\* a source directory is removed
DropSrc(p) ==
    /\ src[p].exists
    /\ OutsideMain
    /\ src' = [src EXCEPT ![p] = [exists |-> FALSE, dmtime |-> 0,
                                  f |-> [f \in Files |-> NoFile], unread |-> {}]]
    /\ UNCHANGED <<clock, dst, mounted>>

----------------------------------------------------------------------------
(* Finding the volume: is_disk_connected and find_drive_path *)

(* Names are sequences of characters: a letter in both cases and a          *)
(* character that has no case.                                              *)
Chars == {"a", "A", "1"}
MaxName == 2
MaxVols == 2
Names == UNION {[1..n -> Chars] : n \in 0..MaxName}
Labels == Names \ {<<>>}

\* str.upper()
Upper(str) == [i \in 1..Len(str) |-> IF str[i] = "a" THEN "A" ELSE str[i]]
\* sub in str
Contains(sub, str) ==
    \E i \in 0..(Len(str) - Len(sub)) : SubSeq(str, i + 1, i + Len(sub)) = sub

(* A volume has a name (empty: no label) and is mounted or not; the k-th    *)
(* volume of a listing is mounted at MountOf(k). On Windows the volumes     *)
(* with a drive letter are the mounted ones.                                *)
Volumes == [name : Names, mounted : BOOLEAN]
Listings == UNION {[1..n -> Volumes] : n \in 0..MaxVols}
MountOf(k) == IF k = 1 THEN <<"/", "1">> ELSE <<"/", "a">>
None == <<"None">>

\* the first of the positions hits of a listing; 0 when there is none
First(hits) == IF hits = {} THEN 0 ELSE CHOOSE k \in hits : \A h \in hits : k <= h

\* a line of lsblk -o LABEL,MOUNTPOINT -n, and str.split() of it
LsblkLine(v, k) == v.name \o <<" ">> \o (IF v.mounted THEN MountOf(k) ELSE <<>>)
SplitLine(v, k) ==
    (IF v.name = <<>> THEN <<>> ELSE <<v.name>>) \o
    (IF v.mounted THEN <<MountOf(k)>> ELSE <<>>)

(* watchdog_backup.py lines 57-67: the Windows branch of is_disk_connected;  *)
(* unreadable: the drives whose GetVolumeInformation raises                  *)
DiskConnectedWindows(label, list, unreadable) ==
    LET k == First({i \in 1..Len(list) :
                       /\ list[i].mounted /\ i \notin unreadable
                       /\ Contains(Upper(label), Upper(list[i].name))})
    IN IF k = 0 THEN None ELSE MountOf(k)

\* watchdog_backup.py lines 68-75: the lsblk branch of is_disk_connected
DiskConnectedLsblk(label, list) ==
    LET k == First({i \in 1..Len(list) : Contains(label, LsblkLine(list[i], i))})
        parts == SplitLine(list[k], k)
    IN IF k = 0 THEN None ELSE parts[Len(parts)]

\* watchdog_backup.py lines 54-77: is_disk_connected(disk_name)
is_disk_connected_path(plat, label, list, unreadable, listingFails) ==
    IF listingFails THEN None
    ELSE IF plat = "Windows" THEN DiskConnectedWindows(label, list, unreadable)
    ELSE DiskConnectedLsblk(label, list)

(* main.py lines 132-151: find_drive_path. Both branches take the volume     *)
(* whose name, as a whole word, equals the label.                            *)
find_drive_path_path(plat, label, list, listingFails) ==
    IF listingFails THEN None
    ELSE LET k == First({i \in 1..Len(list) :
                            /\ list[i].mounted
                            /\ Len(SplitLine(list[i], i)) >= 2
                            /\ list[i].name = label})
         IN IF k = 0 THEN None ELSE MountOf(k)

NoLookup == [by |-> "none", plat |-> "none", label |-> <<>>, list |-> <<>>,
             unreadable |-> {}, fails |-> FALSE, res |-> None]

\* is_disk_connected is called with the configured disk name
LookupWatchdog(plat) ==
    /\ vol.by = "none"
    /\ \E listingFails \in BOOLEAN,
          unreadable \in (IF plat = "Windows" THEN SUBSET (1..Len(vol.list)) ELSE {{}}) :
          vol' = [vol EXCEPT !.by = "watchdog", !.plat = plat,
                             !.unreadable = unreadable, !.fails = listingFails,
                             !.res = is_disk_connected_path(plat, vol.label, vol.list,
                                                            unreadable, listingFails)]
    /\ UNCHANGED <<wvars, mvars, pol, rlog, ext, alog>>

\* find_drive_path is called with the configured drive label
LookupMain(plat) ==
    /\ vol.by = "none"
    /\ \E listingFails \in BOOLEAN :
          vol' = [vol EXCEPT !.by = "main", !.plat = plat, !.fails = listingFails,
                             !.res = find_drive_path_path(plat, vol.label, vol.list,
                                                          listingFails)]
    /\ UNCHANGED <<wvars, mvars, pol, rlog, ext, alog>>

----------------------------------------------------------------------------
(* The robocopy log and its rotation: rotate_robocopy_log *)

\* line 16: the size from which robocopy.log is rotated
MAX_ROBOCOPY_LOG_SIZE == 10 * 1024 * 1024
\* line 17
MAX_LOG_FILES == 10
\* the directory is followed until the clock of the timestamps shows MaxSec
MaxSec == 10
\* the sizes robocopy.log is seen with
LogSizes == {MAX_ROBOCOPY_LOG_SIZE - 1, MAX_ROBOCOPY_LOG_SIZE}

(* robocopy.log (born: its place in the order of creation times) and the    *)
(* files robocopy_<stamp>.log, each with the second in its name and its     *)
(* creation time, which os.rename keeps.                                    *)
NoLog == [here |-> FALSE, size |-> 0, born |-> 0]
NoLogs == [log |-> NoLog, arch |-> {}, sec |-> 0, made |-> 0, op |-> "none",
           renamed |-> FALSE]

\* lines 128-131: sorted(..., key=os.path.getctime): the n first of the list
Oldest(A, n) == {a \in A : Cardinality({b \in A : b.born < a.born}) < n}

(* lines 113-140: rotate_robocopy_log(). os.rename raises when the archive   *)
(* of this second exists already or the log cannot be renamed; os.remove     *)
(* raises at the removeFailsAt-th removal (0: never). Every exception is     *)
(* caught at line 139 and ends the call.                                     *)
rotate_robocopy_log(L, renameFails, removeFailsAt) ==
    IF ~L.log.here THEN [L EXCEPT !.renamed = FALSE]
    ELSE IF L.log.size < MAX_ROBOCOPY_LOG_SIZE THEN [L EXCEPT !.renamed = FALSE]
    ELSE IF renameFails \/ \E a \in L.arch : a.stamp = L.sec
         THEN [L EXCEPT !.renamed = FALSE]
    ELSE LET A == L.arch \cup {[stamp |-> L.sec, born |-> L.log.born]}
             due == IF Cardinality(A) >= MAX_LOG_FILES
                    THEN Cardinality(A) - MAX_LOG_FILES + 1 ELSE 0
             removed == IF removeFailsAt \in 1..due THEN removeFailsAt - 1 ELSE due
         IN [L EXCEPT !.log = NoLog, !.arch = A \ Oldest(A, removed),
                      !.renamed = TRUE]

\* line 147: copy_with_robocopy calls rotate_robocopy_log before robocopy runs
Rotate ==
    /\ \E renameFails \in BOOLEAN, removeFailsAt \in 0..2 :
          rlog' = [rotate_robocopy_log(rlog, renameFails, removeFailsAt)
                       EXCEPT !.op = "rotate"]
    /\ UNCHANGED <<wvars, mvars, pol, vol, ext, alog>>

\* line 161: robocopy /LOG+ appends to robocopy.log and creates it when missing
RobocopyLogs(size) ==
    /\ size >= rlog.log.size
    /\ ~rlog.log.here => rlog.made < MaxSec + 1
    /\ rlog' = [rlog EXCEPT !.log = IF rlog.log.here THEN [@ EXCEPT !.size = size]
                                    ELSE [here |-> TRUE, size |-> size,
                                          born |-> rlog.made + 1],
                            !.made = IF rlog.log.here THEN @ ELSE @ + 1,
                            !.op = "robocopy"]
    /\ UNCHANGED <<wvars, mvars, pol, vol, ext, alog>>

\* a second passes
TickSec ==
    /\ rlog.sec < MaxSec
    /\ rlog' = [rlog EXCEPT !.sec = @ + 1, !.op = "tick"]
    /\ UNCHANGED <<wvars, mvars, pol, vol, ext, alog>>

----------------------------------------------------------------------------
(* The external tools the service waits for: subprocess.run *)

(* ext: where main() of watchdog_backup.py is (pc), the platform, the       *)
(* cached answers of is_robocopy_available and check_rsync_available, the   *)
(* tool subprocess.run waits for (call) and whether it still runs or hangs, *)
(* the pair the job is at, the result of the last copy, and the number of   *)
(* jobs started.                                                            *)
NoTools == [pc |-> "off", plat |-> "none", rob |-> "unset", rsy |-> "unset",
            call |-> "none", tool |-> "none", i |-> 0, res |-> "none", jobs |-> 0]

\* the service is followed for MaxJobs jobs
MaxJobs == 3

\* lines 160-170 and 205-210: the calls subprocess.run is given timeout=3600 for
HasTimeout(call) == call \in {"robocopy", "rsync"}

\* what a tool that ends gives: an exit status, or it could not be started
ToolEnds == {"rc0", "rc1", "missing"}

\* lines 398-399: the job goes to the next pair, or ends after the last one
NextPair(e) ==
    IF e.i < NPairs THEN [e EXCEPT !.pc = "pairs", !.i = @ + 1]
    ELSE [e EXCEPT !.pc = "sleep", !.i = 0]

\* lines 387-391: main() asks for the copy tool of the platform
ProbeCall ==
    /\ ext.pc = "start"
    /\ ext' = [ext EXCEPT !.pc = "probe", !.tool = "running",
                          !.call = IF ext.plat = "Windows" THEN "probe_robocopy"
                                   ELSE "probe_rsync"]
    /\ UNCHANGED <<wvars, mvars, pol, vol, rlog, alog>>

(* The tool subprocess.run waits for comes to its end. Lines 41-51: any     *)
(* exit status of robocopy /? means available; lines 80-91: rsync --version *)
(* with check=True; lines 68-70: lsblk with check=True, an exception gives  *)
(* None; lines 172-196 and 213-225: the copy tools.                         *)
ToolReturns ==
    /\ ext.tool = "running"
    /\ \E end \in ToolEnds, found \in BOOLEAN :
          LET e == [ext EXCEPT !.tool = "none", !.call = "none"] IN
          ext' = CASE ext.call = "probe_robocopy" ->
                        [e EXCEPT !.pc = "job", !.jobs = 1,
                                  !.rob = IF end = "missing" THEN "no" ELSE "yes"]
                   [] ext.call = "probe_rsync" ->
                        [e EXCEPT !.pc = "job", !.jobs = 1,
                                  !.rsy = IF end = "rc0" THEN "yes" ELSE "no"]
                   [] ext.call = "lsblk" ->
                        IF end = "rc0" /\ found
                        THEN [e EXCEPT !.pc = "pairs", !.i = 1]
                        ELSE [e EXCEPT !.pc = "sleep"]
                   [] OTHER ->
                        NextPair([e EXCEPT !.res = IF end = "rc0" THEN "ok"
                                                   ELSE "fatal"])
    /\ UNCHANGED <<wvars, mvars, pol, vol, rlog, alog>>

\* the tool stops making progress and never ends by itself
ToolHangs ==
    /\ ext.tool = "running"
    /\ ext' = [ext EXCEPT !.tool = "hung"]
    /\ UNCHANGED <<wvars, mvars, pol, vol, rlog, alog>>

(* subprocess.run(..., timeout=3600) kills the tool and raises               *)
(* TimeoutExpired, caught at lines 190-192 (robocopy) and 223-225 (rsync):   *)
(* the copy has failed.                                                      *)
TimeoutExpires ==
    /\ ext.tool \in {"running", "hung"}
    /\ HasTimeout(ext.call)
    /\ ext' = NextPair([ext EXCEPT !.tool = "none", !.call = "none",
                                   !.res = "timeout"])
    /\ UNCHANGED <<wvars, mvars, pol, vol, rlog, alog>>

\* lines 57-67: on Windows is_disk_connected asks win32api, inside the process
ListDrives ==
    /\ ext.pc = "job" /\ ext.plat = "Windows"
    /\ \E found \in BOOLEAN :
          ext' = IF found THEN [ext EXCEPT !.pc = "pairs", !.i = 1]
                 ELSE [ext EXCEPT !.pc = "sleep"]
    /\ UNCHANGED <<wvars, mvars, pol, vol, rlog, alog>>

\* lines 68-71: elsewhere it runs lsblk
ListLsblk ==
    /\ ext.pc = "job" /\ ext.plat # "Windows"
    /\ ext' = [ext EXCEPT !.pc = "listing", !.tool = "running", !.call = "lsblk"]
    /\ UNCHANGED <<wvars, mvars, pol, vol, rlog, alog>>

\* lines 272-283: copy_files finds nothing to copy for the pair
SkipPair ==
    /\ ext.pc = "pairs"
    /\ ext' = NextPair([ext EXCEPT !.res = "skip"])
    /\ UNCHANGED <<wvars, mvars, pol, vol, rlog, alog>>

\* lines 288-299: copy_files starts the backend of the platform
CopyPair ==
    /\ ext.pc = "pairs"
    /\ LET backend == ChooseBackend(ext.plat, [robocopy |-> ext.rob = "yes",
                                               rsync |-> ext.rsy = "yes"])
       IN IF backend = "python"
          THEN \E res \in {"ok", "fatal"} : ext' = NextPair([ext EXCEPT !.res = res])
          ELSE ext' = [ext EXCEPT !.pc = "copying", !.tool = "running",
                                  !.call = backend]
    /\ UNCHANGED <<wvars, mvars, pol, vol, rlog, alog>>

\* lines 413-415: schedule.run_pending() starts the next job
Wake ==
    /\ ext.pc = "sleep"
    /\ ext.jobs < MaxJobs
    /\ ext' = [ext EXCEPT !.pc = "job", !.res = "none", !.jobs = @ + 1]
    /\ UNCHANGED <<wvars, mvars, pol, vol, rlog, alog>>

----------------------------------------------------------------------------
(* The application log of main.py and its archives: LogRotator, Logger *)

\* main.py line 11
LOG_RETENTION_DAYS == 10
\* the log directory is followed until the date is day MaxDay
MaxDay == 12
Days == 0..MaxDay

(* A file name is the sequence of the pieces between its dots, which is what *)
(* str.split('.') gives: a piece is a word, or a date written %Y-%m-%d.      *)
Word(w) == [kind |-> "word", w |-> w, day |-> 0]
DateStr(d) == [kind |-> "date", w |-> "", day |-> d]
\* os.path.basename(self.log_file): watchdog_backup.log
LogName == <<Word("watchdog_backup"), Word("log")>>
\* line 71: f"{self.log_file}.{current_date}"
ArchivedLog(d) == LogName \o <<DateStr(d)>>

\* line 86: filename.startswith(os.path.basename(self.log_file))
StartsWithLogName(name) ==
    Len(name) >= Len(LogName) /\ SubSeq(name, 1, Len(LogName)) = LogName

(* lines 89-94: the file is removed. filename.count('.') is the number of    *)
(* pieces less one; the date is parsed from the piece before the last one,   *)
(* and strptime raises on a piece that is no date: the except of line 95     *)
(* goes on to the next file.                                                 *)
RemovedByCleanup(name, today) ==
    /\ StartsWithLogName(name)
    /\ Len(name) - 1 >= 2
    /\ LET file_date_str == name[Len(name) - 1] IN
       /\ file_date_str.kind = "date"
       /\ file_date_str.day < today - LOG_RETENTION_DAYS

\* lines 82-96: cleanup_old_logs() on the names of the log directory
cleanup_old_logs(files, today) == {n \in files : ~RemovedByCleanup(n, today)}

(* lines 65-80: rotate_logs(). Nothing without a log file; the log is        *)
(* renamed to the archive of today unless that exists; a rename that fails   *)
(* ends the call; then the cleanup runs.                                     *)
rotate_logs(L, renameFails) ==
    IF LogName \notin L.files THEN [L EXCEPT !.op = "nolog"]
    ELSE IF ArchivedLog(L.day) \in L.files
    THEN [L EXCEPT !.files = cleanup_old_logs(L.files, L.day), !.op = "rotated"]
    ELSE IF renameFails THEN [L EXCEPT !.op = "renamefail"]
    ELSE [L EXCEPT !.files = cleanup_old_logs((L.files \ {LogName})
                                                  \cup {ArchivedLog(L.day)}, L.day),
                   !.op = "rotated"]

\* lines 58-63: needs_rotation()
needs_rotation(L) == L.day # L.last_rotation_date /\ L.hour = 0

NoArchives == [files |-> {}, day |-> 0, hour |-> 0, last_rotation_date |-> 0,
               op |-> "none"]

(* lines 105-120: Logger.log(message): the rotation when it is due, then the *)
(* line is appended to the log file, which creates it; an error of the write *)
(* is caught.                                                                *)
LogMessage ==
    /\ \E renameFails \in BOOLEAN, writeFails \in BOOLEAN :
          LET L1 == IF needs_rotation(alog)
                    THEN rotate_logs([alog EXCEPT !.last_rotation_date = alog.day],
                                     renameFails)
                    ELSE [alog EXCEPT !.op = "write"]
          IN alog' = IF writeFails THEN L1
                     ELSE [L1 EXCEPT !.files = @ \cup {LogName}]
    /\ UNCHANGED <<wvars, mvars, pol, vol, rlog, ext>>

\* the clock goes on: to a later hour of the day, or to a following day
HourPasses ==
    /\ alog.hour = 0
    /\ alog' = [alog EXCEPT !.hour = 1, !.op = "time"]
    /\ UNCHANGED <<wvars, mvars, pol, vol, rlog, ext>>

DayPasses(hour) ==
    /\ alog.day < MaxDay
    /\ alog' = [alog EXCEPT !.day = @ + 1, !.hour = hour, !.op = "time"]
    /\ UNCHANGED <<wvars, mvars, pol, vol, rlog, ext>>

----------------------------------------------------------------------------
(* Spec: watchdog_backup.py *)

Platforms ==
    {<<"Windows", [robocopy |-> TRUE, rsync |-> FALSE]>>,
     <<"Windows", [robocopy |-> FALSE, rsync |-> FALSE]>>,
     <<"Windows", [robocopy |-> FALSE, rsync |-> TRUE]>>,
     <<"Other", [robocopy |-> FALSE, rsync |-> TRUE]>>,
     <<"Other", [robocopy |-> FALSE, rsync |-> FALSE]>>}

Init ==
    /\ clock = 0
    /\ src = [p \in Pairs |-> IF p \in EnvPairs THEN Tree0(EnvFiles) ELSE Tree0({"a"})]
    /\ dst = [p \in Pairs |-> EmptyDst]
    /\ marker = [p \in Pairs |-> NoMarker]
    /\ mounted = FALSE
    /\ \E pa \in Platforms : platform = pa[1] /\ avail = pa[2]
    /\ pairs = <<1>>
    /\ wpc = "stopped"
    /\ wcur = 0
    /\ last = NoCall
    /\ quiet = [p \in Pairs |-> FALSE]
    /\ calm = [p \in Pairs |-> "no"]
    /\ env = 0
    /\ drive_connected = FALSE
    /\ last_sync_time = 0
    /\ now = 0
    /\ mpc = "off"
    /\ mlast = NoPoll
    /\ pol = NoPass
    /\ vol = NoLookup
    /\ rlog = NoLogs
    /\ ext = NoTools
    /\ alog = NoArchives

Program ==
    \/ Startup
    \/ Job
    \/ \E p \in Pairs : Scan(p)
    \/ \E p \in Pairs : CopyRobocopy(p)
    \/ \E p \in Pairs : CopyRsync(p)
    \/ \E p \in Pairs : CopyPython(p)
    \/ \E p \in Pairs : Interrupt(p)

Next == Program \/ Environment

Spec == Init /\ [][Next]_vars

----------------------------------------------------------------------------
(* SpecMain: main.py *)

\* a target directory as the user prepared it on the volume
EmptyTarget == [dirs |-> {"root"}, f |-> [f \in Files |-> NoFile]]

InitMain ==
    /\ clock = 0
    /\ src = [p \in Pairs |-> IF p \in EnvPairs THEN Tree0(EnvFiles) ELSE Tree0({"a"})]
    /\ \E has \in SUBSET Pairs :
          dst = [p \in Pairs |-> IF p \in has THEN EmptyTarget ELSE EmptyDst]
    /\ marker = [p \in Pairs |-> NoMarker]
    /\ mounted = FALSE
    /\ platform = "Windows" /\ avail = [robocopy |-> FALSE, rsync |-> FALSE]
    /\ pairs = <<1, 2>>
    /\ wpc = "stopped"
    /\ wcur = 0
    /\ last = NoCall
    /\ quiet = [p \in Pairs |-> FALSE]
    /\ calm = [p \in Pairs |-> "no"]
    /\ env = 0
    /\ drive_connected = FALSE
    /\ last_sync_time = 0
    /\ now = 0
    /\ mpc = "off"
    /\ mlast = NoPoll
    /\ pol = NoPass
    /\ vol = NoLookup
    /\ rlog = NoLogs
    /\ ext = NoTools
    /\ alog = NoArchives

NextMain ==
    \/ StartMain
    \/ Poll
    \/ Plug
    \/ \E p \in {1, 2} : MakeTarget(p)
    \/ \E p \in {1, 2} : LoseTarget(p)
    \/ \E p \in EnvPairs, f \in EnvFiles, t \in Stamps : EditSrc(p, f, t)
    \/ \E p \in {1, 2} : DropSrc(p)

SpecMain == InitMain /\ [][NextMain]_vars

----------------------------------------------------------------------------
(* SpecPolicy: the two walking copies, applied once to the trees of one pair *)

InitPolicy ==
    /\ clock = MaxTime
    /\ \E sa \in FileStates \ {NoFile}, sc \in {NoFile, MkFile(1, "x")},
          da \in FileStates, dc \in {NoFile, MkFile(1, "x"), MkFile(MaxTime, "z")} :
          /\ src = [p \in Pairs |->
                      [exists |-> TRUE, dmtime |-> 0, unread |-> {},
                       f |-> [f \in Files |-> IF p # 1 THEN NoFile
                                              ELSE CASE f = "a" -> sa
                                                     [] f = "c" -> sc
                                                     [] OTHER -> NoFile]]]
          /\ dst = [p \in Pairs |->
                      IF p # 1 THEN EmptyDst
                      ELSE [dirs |-> {"root"} \cup (IF dc.here THEN {"sub"} ELSE {}),
                            f |-> [f \in Files |-> CASE f = "a" -> da
                                                     [] f = "c" -> dc
                                                     [] OTHER -> NoFile]]]
    /\ marker = [p \in Pairs |-> NoMarker]
    /\ mounted = TRUE
    /\ platform = "Windows" /\ avail = [robocopy |-> FALSE, rsync |-> FALSE]
    /\ pairs = <<1>>
    /\ wpc = "stopped"
    /\ wcur = 0
    /\ last = NoCall
    /\ quiet = [p \in Pairs |-> FALSE]
    /\ calm = [p \in Pairs |-> "no"]
    /\ env = 0
    /\ drive_connected = FALSE
    /\ last_sync_time = 0
    /\ now = 0
    /\ mpc = "off"
    /\ mlast = NoPoll
    /\ pol = NoPass
    /\ vol = NoLookup
    /\ rlog = NoLogs
    /\ ext = NoTools
    /\ alog = NoArchives

\* watchdog_backup.py: copy_with_python(src, dst, logger) on pair 1
WalkOnce ==
    /\ pol.op = "none"
    /\ \E order \in Orders(src[1]), fp \in FaultPlans(src[1], dst[1]) :
          LET r == copy_with_python(src[1], dst[1], "root", order, fp, clock) IN
          /\ dst' = [dst EXCEPT ![1] = r.dst]
          /\ pol' = [op |-> "walker", before |-> dst[1], copied |-> r.did,
                     ok |-> IF r.failed = {} THEN {f \in Files : src[1].f[f].here}
                            ELSE r.did,
                     fp |-> fp, failed |-> r.failed, count |-> r.copied]
    /\ UNCHANGED <<clock, src, marker, mounted, platform, avail, pairs, wpc, wcur,
                   last, quiet, calm, env, mvars, ovars>>

\* main.py: the body of sync_directories on pair 1
SyncOnce ==
    /\ pol.op = "none"
    /\ \E fp \in MainPlans(src[1], dst[1]) :
          /\ dst' = [dst EXCEPT ![1] = SyncPair(src[1], dst[1], fp, clock)]
          /\ pol' = [op |-> "main", before |-> dst[1],
                     copied |-> {f \in Files : Listed(src[1], dst[1], f, fp)
                                                /\ fp.k[f] = "none"},
                     ok |-> {f \in Files : /\ src[1].f[f].here
                                           /\ DirOf(f) \notin fp.skip
                                           /\ fp.k[f] = "none"},
                     fp |-> NoFaults, failed |-> {},
                     count |-> Cardinality({f \in Files :
                                              Listed(src[1], dst[1], f, fp)
                                              /\ fp.k[f] = "none"})]
    /\ UNCHANGED <<clock, src, marker, mounted, platform, avail, pairs, wpc, wcur,
                   last, quiet, calm, env, mvars, ovars>>

NextPolicy == WalkOnce \/ SyncOnce

SpecPolicy == InitPolicy /\ [][NextPolicy]_vars

----------------------------------------------------------------------------
(* SpecVolume: one volume lookup over the labels and listings *)

InitVolume ==
    /\ clock = 0
    /\ src = [p \in Pairs |-> Tree0({"a"})]
    /\ dst = [p \in Pairs |-> EmptyDst]
    /\ marker = [p \in Pairs |-> NoMarker]
    /\ mounted = FALSE
    /\ platform = "Windows" /\ avail = [robocopy |-> FALSE, rsync |-> FALSE]
    /\ pairs = <<1>>
    /\ wpc = "stopped"
    /\ wcur = 0
    /\ last = NoCall
    /\ quiet = [p \in Pairs |-> FALSE]
    /\ calm = [p \in Pairs |-> "no"]
    /\ env = 0
    /\ drive_connected = FALSE
    /\ last_sync_time = 0
    /\ now = 0
    /\ mpc = "off"
    /\ mlast = NoPoll
    /\ pol = NoPass
    /\ \E label \in Labels, list \in Listings :
          vol = [NoLookup EXCEPT !.label = label, !.list = list]
    /\ rlog = NoLogs
    /\ ext = NoTools
    /\ alog = NoArchives

NextVolume ==
    \/ \E plat \in {"Windows", "Other"} : LookupWatchdog(plat)
    \/ \E plat \in {"Windows", "Other"} : LookupMain(plat)

SpecVolume == InitVolume /\ [][NextVolume]_vars

----------------------------------------------------------------------------
(* SpecRotate: robocopy runs and log rotations in an empty working directory *)

InitRotate ==
    /\ clock = 0
    /\ src = [p \in Pairs |-> Tree0({"a"})]
    /\ dst = [p \in Pairs |-> EmptyDst]
    /\ marker = [p \in Pairs |-> NoMarker]
    /\ mounted = FALSE
    /\ platform = "Windows" /\ avail = [robocopy |-> TRUE, rsync |-> FALSE]
    /\ pairs = <<1>>
    /\ wpc = "stopped"
    /\ wcur = 0
    /\ last = NoCall
    /\ quiet = [p \in Pairs |-> FALSE]
    /\ calm = [p \in Pairs |-> "no"]
    /\ env = 0
    /\ drive_connected = FALSE
    /\ last_sync_time = 0
    /\ now = 0
    /\ mpc = "off"
    /\ mlast = NoPoll
    /\ pol = NoPass
    /\ vol = NoLookup
    /\ rlog = NoLogs
    /\ ext = NoTools
    /\ alog = NoArchives

NextRotate ==
    \/ Rotate
    \/ \E size \in LogSizes : RobocopyLogs(size)
    \/ TickSec

SpecRotate == InitRotate /\ [][NextRotate]_vars

----------------------------------------------------------------------------
(* SpecJunk: copy_files on a source that holds a Thumbs.db beside a document *)

InitJunk ==
    /\ clock = 0
    /\ src = [p \in Pairs |-> Tree0({"a"} \cup Junk)]
    /\ dst = [p \in Pairs |-> EmptyDst]
    /\ marker = [p \in Pairs |-> NoMarker]
    /\ mounted = FALSE
    /\ \E pa \in Platforms : platform = pa[1] /\ avail = pa[2]
    /\ pairs = <<1>>
    /\ wpc = "stopped"
    /\ wcur = 0
    /\ last = NoCall
    /\ quiet = [p \in Pairs |-> FALSE]
    /\ calm = [p \in Pairs |-> "no"]
    /\ env = 0
    /\ drive_connected = FALSE
    /\ last_sync_time = 0
    /\ now = 0
    /\ mpc = "off"
    /\ mlast = NoPoll
    /\ pol = NoPass
    /\ vol = NoLookup
    /\ rlog = NoLogs
    /\ ext = NoTools
    /\ alog = NoArchives

\* the program alone: nothing outside touches the trees
SpecJunk == InitJunk /\ [][Program]_vars

----------------------------------------------------------------------------
(* SpecTools: the service and its external tools, with fairness *)

InitTools ==
    /\ clock = 0
    /\ src = [p \in Pairs |-> Tree0({"a"})]
    /\ dst = [p \in Pairs |-> EmptyDst]
    /\ marker = [p \in Pairs |-> NoMarker]
    /\ mounted = FALSE
    /\ platform = "Windows" /\ avail = [robocopy |-> FALSE, rsync |-> FALSE]
    /\ pairs = <<1>>
    /\ wpc = "stopped"
    /\ wcur = 0
    /\ last = NoCall
    /\ quiet = [p \in Pairs |-> FALSE]
    /\ calm = [p \in Pairs |-> "no"]
    /\ env = 0
    /\ drive_connected = FALSE
    /\ last_sync_time = 0
    /\ now = 0
    /\ mpc = "off"
    /\ mlast = NoPoll
    /\ pol = NoPass
    /\ vol = NoLookup
    /\ rlog = NoLogs
    /\ \E plat \in {"Windows", "Other"} :
          ext = [NoTools EXCEPT !.pc = "start", !.plat = plat]
    /\ alog = NoArchives

\* the steps of the Python process
ServiceStep == ProbeCall \/ ListDrives \/ ListLsblk \/ SkipPair \/ CopyPair \/ Wake
\* a running tool does something: it ends, or it hangs for good
ToolStep == ToolReturns \/ ToolHangs

NextTools ==
    \/ ProbeCall
    \/ ToolReturns
    \/ ToolHangs
    \/ TimeoutExpires
    \/ ListDrives
    \/ ListLsblk
    \/ SkipPair
    \/ CopyPair
    \/ Wake

(* The process keeps running, the timeout of subprocess.run fires, and a    *)
(* running tool ends or hangs; nothing makes a hung tool end.               *)
SpecTools ==
    /\ InitTools /\ [][NextTools]_vars
    /\ WF_vars(ServiceStep) /\ WF_vars(TimeoutExpires) /\ WF_vars(ToolStep)

----------------------------------------------------------------------------
(* SpecArchives: the log directory of main.py over the days *)

InitArchives ==
    /\ clock = 0
    /\ src = [p \in Pairs |-> Tree0({"a"})]
    /\ dst = [p \in Pairs |-> EmptyDst]
    /\ marker = [p \in Pairs |-> NoMarker]
    /\ mounted = FALSE
    /\ platform = "Windows" /\ avail = [robocopy |-> FALSE, rsync |-> FALSE]
    /\ pairs = <<1>>
    /\ wpc = "stopped"
    /\ wcur = 0
    /\ last = NoCall
    /\ quiet = [p \in Pairs |-> FALSE]
    /\ calm = [p \in Pairs |-> "no"]
    /\ env = 0
    /\ drive_connected = FALSE
    /\ last_sync_time = 0
    /\ now = 0
    /\ mpc = "off"
    /\ mlast = NoPoll
    /\ pol = NoPass
    /\ vol = NoLookup
    /\ rlog = NoLogs
    /\ ext = NoTools
    /\ \E hour \in {0, 1} : alog = [NoArchives EXCEPT !.hour = hour]

NextArchives ==
    \/ LogMessage
    \/ HourPasses
    \/ \E hour \in {0, 1} : DayPasses(hour)

SpecArchives == InitArchives /\ [][NextArchives]_vars

----------------------------------------------------------------------------
(* Claims on copy_files (specification Spec) *)

\* the last copy_files call has made its skip decision and nothing more
JustScanned == last.phase = "scanned" \/ (last.phase = "done" /\ last.backend = "none")
\* the last copy_files call ran a backend
Attempted == last.phase = "done" /\ last.backend # "none"

(* C1: copy_files writes the marker only after the backend of the attempt   *)
(* reported success; after a failed attempt (robocopy status above 7, rsync *)
(* status not 0, timeout, exception in the backend, interrupt) the marker   *)
(* holds what it held before the attempt, and with the source unchanged the *)
(* skip decision still asks for a copy.                                     *)
C1_MarkerOnlyAfterSuccess ==
    Attempted =>
        /\ last.after # last.before => last.success
        /\ ~last.success =>
              /\ last.after = last.before
              /\ marker[last.pair] = last.before
              /\ quiet[last.pair] =>
                    NeedCopy(get_dir_mtime(src[last.pair]), marker[last.pair])
        /\ last.success <=>
              CASE last.backend = "robocopy" ->
                       last.outcome[1] = "rc" /\ last.outcome[2] <= 7
                [] last.backend = "rsync" -> last.outcome = <<"rc", 0>>
                [] OTHER -> last.copied > 0 /\ last.outcome[1] = "rc"

\* a failed attempt (a timeout of the tool) on a pair whose marker held a time
C1_Witness ==
    /\ Attempted
    /\ last.outcome[1] = "timeout"
    /\ last.before.kind = "text"
    /\ last.touched # {}

(* C5: the skip decision asks for a copy exactly when there is no marker,   *)
(* or the marker cannot be read or parsed, or the largest modification time *)
(* of the source subtree is greater than the marker's value; otherwise no   *)
(* backend runs and nothing is copied or written.                           *)
C5_SkipDecision ==
    last.phase # "none" =>
        /\ last.need <=>
              \/ last.before.kind = "absent"
              \/ last.before.kind \in {"locked", "garbage"}
              \/ last.before.kind = "text" /\ last.cur > last.before.val
        /\ ~last.need =>
              /\ last.phase = "done" /\ last.backend = "none"
              /\ last.touched = {} /\ last.after = last.before
        /\ quiet[last.pair] /\ src[last.pair].exists =>
              /\ last.cur >= src[last.pair].dmtime
              /\ \A f \in Scanned(src[last.pair]) : last.cur >= src[last.pair].f[f].mtime
              /\ \/ last.cur = src[last.pair].dmtime
                 \/ \E f \in Scanned(src[last.pair]) : last.cur = src[last.pair].f[f].mtime

\* a call that skipped the copy: the marker holds a time no older than the source
C5_Witness ==
    /\ last.phase = "done" /\ ~last.need
    /\ last.before.kind = "text"
    /\ last.cur = last.before.val
    /\ last.cur > 0

(* C6 as stated: once a success is recorded, every later call with no       *)
(* change of the source since the recording skips the copy.                 *)
C6_Original ==
    (JustScanned /\ calm[last.pair] # "no") => ~last.need

(* C6, amended: once a success is recorded, every later copy_files call on  *)
(* the pair, with nothing changed since the scan of the call that recorded  *)
(* it, decides that no copy is needed, runs no backend, copies no file and  *)
(* leaves the marker as it is.                                              *)
C6_Idempotent ==
    (JustScanned /\ calm[last.pair] = "full") =>
        /\ ~last.need
        /\ last.phase = "done" /\ last.backend = "none"
        /\ last.touched = {}
        /\ last.after = last.before /\ marker[last.pair] = last.before

\* a call that skipped the copy after a recorded success
C6_Witness ==
    /\ JustScanned /\ calm[last.pair] = "full"
    /\ last.phase = "done" /\ ~last.need

\* step: a file of the source of pair p is written
Written(p, f) == src'[p].f[f].here /\ src'[p].f[f] # src[p].f[f]

(* C7 as stated: modifying a file of the source after a recorded success    *)
(* strictly increases get_dir_mtime and makes the next call ask for a copy. *)
C7_Original ==
    [][\A p \in Pairs : \A f \in Files :
          (calm[p] # "no" /\ Written(p, f)) =>
              /\ get_dir_mtime(src'[p]) > get_dir_mtime(src[p])
              /\ NeedCopy(get_dir_mtime(src'[p]), marker'[p])]_vars

(* C7, amended: modifying a file of the source after a recorded success     *)
(* makes the next copy_files call ask for a copy when the modification      *)
(* gives the file a modification time, readable by the scan, greater than   *)
(* the recorded marker value: get_dir_mtime is then greater than the marker *)
(* value, and greater than it was when nothing else changed since the scan  *)
(* of the recording call.                                                   *)
C7_ModificationDetected ==
    [][\A p \in Pairs : \A f \in Files :
          (/\ calm[p] # "no"
           /\ Written(p, f)
           /\ f \notin src'[p].unread
           /\ src'[p].f[f].mtime > marker[p].val) =>
              /\ get_dir_mtime(src'[p]) > marker'[p].val
              /\ calm[p] = "full" => get_dir_mtime(src'[p]) > get_dir_mtime(src[p])
              /\ NeedCopy(get_dir_mtime(src'[p]), marker'[p])]_vars

\* a call that asks for a copy because a file in the sub-directory is newer
\* than the recorded marker
C7_Witness ==
    /\ last.phase = "scanned"
    /\ last.before.kind = "text"
    /\ last.cur > last.before.val
    /\ src[last.pair].f["c"].mtime = last.cur
    /\ src[last.pair].dmtime < last.cur /\ src[last.pair].f["a"].mtime < last.cur

(* C10 as stated: when a source file that needed copying is not copied by   *)
(* the end of the attempt, copy_files does not write the marker.            *)
C10_PartialCopyKeepsMarker ==
    (/\ Attempted /\ last.backend = "python"
     /\ quiet[last.pair]
     /\ last.missed # {}) => last.after = last.before

----------------------------------------------------------------------------
(* Claims on the loop of main.py (specification SpecMain) *)

\* step: one pass of the while True loop of main()
PollStep == mpc = "loop" /\ (now' # now \/ mpc' = "ended")

(* C2 as stated: a poll that finds the volume while the state is            *)
(* Disconnected makes the state Connected and runs a full sync pass in that *)
(* same poll, whatever the time since the last sync.                        *)
C2_ConnectRunsPass ==
    [][(PollStep /\ mlast'.found /\ ~drive_connected) =>
          /\ drive_connected'
          /\ mlast'.ran /\ ~mlast'.raised
          /\ last_sync_time' = now]_vars

(* C3: a poll that does not find the volume leaves the state Disconnected   *)
(* (from Connected: the disconnect transition; from Disconnected: every     *)
(* later poll while the volume stays absent), starts no sync pass, copies   *)
(* no file, writes no marker and leaves last_sync_time as it was.           *)
C3_DisconnectNoCopy ==
    [][(PollStep /\ ~mlast'.found) =>
          /\ ~drive_connected'
          /\ ~mlast'.ran
          /\ dst' = dst /\ marker' = marker
          /\ last_sync_time' = last_sync_time
          /\ mpc' = "loop"]_vars

\* the poll after the volume was pulled out: the state was Connected, files had
\* been copied, and the poll did not find the volume
C3_Witness ==
    /\ mlast.was /\ ~mlast.found
    /\ ~drive_connected /\ ~mlast.ran
    /\ last_sync_time < mlast.at
    /\ \E p \in Pairs : dst[p].f["a"].here

(* C4 as stated: while the state is Connected and the volume is found, a    *)
(* poll runs a sync pass exactly when now - last_sync_time is greater than  *)
(* the interval; the pass leaves the state Connected and updates            *)
(* last_sync_time; a poll with the interval not elapsed changes nothing.    *)
C4_PeriodicPass ==
    [][(PollStep /\ mlast'.found /\ drive_connected) =>
          /\ mlast'.ran <=> now - last_sync_time > CHECK_INTERVAL
          /\ mlast'.ran => /\ drive_connected' /\ ~mlast'.raised
                           /\ last_sync_time' = now
          /\ ~mlast'.ran => /\ drive_connected'
                            /\ last_sync_time' = last_sync_time
                            /\ dst' = dst]_vars

----------------------------------------------------------------------------
(* Claims on the walking copies (specification SpecPolicy) *)

\* the per-file policy as the specification words it
PolicyCopies(s, d) ==
    ~d.here \/ Size(s.data) # Size(d.data) \/ s.mtime > d.mtime

(* C8: a walking copy (copy_with_python of watchdog_backup.py, the body of  *)
(* sync_directories of main.py) copies a source file it examines without    *)
(* I/O error if and only if the destination is absent, or the sizes differ, *)
(* or the source's modification time is greater than the destination's; a   *)
(* file it copies becomes the source file, a file it does not copy is left  *)
(* as it was.                                                               *)
C8_PerFilePolicy ==
    pol.op # "none" =>
        \A f \in pol.ok :
            /\ f \in pol.copied <=> PolicyCopies(src[1].f[f], pol.before.f[f])
            /\ f \in pol.copied => dst[1].f[f] = src[1].f[f]
            /\ f \notin pol.copied => dst[1].f[f] = pol.before.f[f]

\* a walk that copied the file whose destination was absent and left alone the
\* file whose destination had the same size and a modification time not older
C8_Witness ==
    /\ pol.op = "walker"
    /\ "c" \in pol.copied /\ ~pol.before.f["c"].here
    /\ "a" \in pol.ok \ pol.copied
    /\ pol.before.f["a"].mtime >= src[1].f["a"].mtime
    /\ pol.before.f["a"].data # src[1].f["a"].data

(* C9 as stated: no pass overwrites a destination file whose modification   *)
(* time is greater than the source file's: such a file is after the pass    *)
(* what it was before.                                                      *)
C9_NewerDestinationKept ==
    pol.op # "none" =>
        \A f \in pol.ok :
            (/\ src[1].f[f].here /\ pol.before.f[f].here
             /\ pol.before.f[f].mtime > src[1].f[f].mtime) =>
                dst[1].f[f] = pol.before.f[f]

----------------------------------------------------------------------------
(* Claims on the backends of copy_files (specification Spec) *)

\* the backend the specification names for the platform and the installed tools
ExpectedBackend ==
    IF platform = "Windows"
    THEN (IF avail.robocopy THEN "robocopy" ELSE "python")
    ELSE (IF avail.rsync THEN "rsync" ELSE "python")

(* C11: every copy attempt runs exactly one backend: robocopy on Windows    *)
(* when it is available, rsync on other platforms when it is available,     *)
(* the walker otherwise; a backend runs only right after the scan of its    *)
(* call, and when the attempt ends, failed or not, the call is over and no  *)
(* second backend runs for the pair.                                        *)
C11_OneBackend ==
    [][/\ wpc' = "copy" => last'.phase = "scanned" /\ last'.backend = "none"
       /\ (last.phase = "scanned" /\ last'.phase = "done") =>
             /\ last'.backend = ExpectedBackend
             /\ last'.pair = last.pair
             /\ wpc' # "copy"]_vars

\* a failed attempt of the walker on Windows, where rsync is installed and
\* robocopy is not
C11_Witness ==
    /\ Attempted /\ ~last.success
    /\ platform = "Windows" /\ avail.rsync /\ ~avail.robocopy
    /\ last.backend = "python"
    /\ wpc # "copy"

(* C12: after a robocopy run copy_files takes every exit status from 0 to 7 *)
(* for a success and writes the marker (the value of the scan, when the     *)
(* write itself does not fail); it takes every exit status above 7 for a    *)
(* failure and leaves the marker as it was.                                 *)
C12_RobocopyStatus ==
    (Attempted /\ last.backend = "robocopy" /\ last.outcome[1] = "rc") =>
        /\ last.outcome[2] <= 7 =>
              /\ last.success
              /\ last.write = "ok" =>
                    last.after = [kind |-> "text", val |-> last.cur]
        /\ last.outcome[2] > 7 =>
              /\ ~last.success
              /\ last.after = last.before /\ last.write = "none"

\* a robocopy run that ended with status 7, after which the marker was written
C12_Witness ==
    /\ Attempted /\ last.backend = "robocopy"
    /\ last.outcome = <<"rc", 7>>
    /\ last.after = [kind |-> "text", val |-> last.cur]
    /\ last.after # last.before

(* C13: after an rsync run copy_files takes exit status 0 for a success,    *)
(* also when rsync copied no file, and writes the marker (the value of the  *)
(* scan, when the write itself does not fail); it takes every other exit    *)
(* status for a failure and leaves the marker as it was.                    *)
C13_RsyncStatus ==
    (Attempted /\ last.backend = "rsync" /\ last.outcome[1] = "rc") =>
        /\ last.outcome[2] = 0 =>
              /\ last.success
              /\ last.write = "ok" =>
                    last.after = [kind |-> "text", val |-> last.cur]
        /\ last.outcome[2] # 0 =>
              /\ ~last.success
              /\ last.after = last.before /\ last.write = "none"

\* an rsync run that copied no file and ended with status 0, after which the
\* marker was written
C13_Witness ==
    /\ Attempted /\ last.backend = "rsync"
    /\ last.outcome = <<"rc", 0>>
    /\ last.copied = 0 /\ last.touched = {}
    /\ last.after = [kind |-> "text", val |-> last.cur]
    /\ last.after # last.before

(* C14 as stated: when the walker completes its walk (no level of it ends   *)
(* in an exception), the attempt is a success and the marker is written,    *)
(* however many files were copied or skipped, zero copied included.         *)
C14_WalkerCompletedIsSuccess ==
    (/\ Attempted /\ last.backend = "python"
     /\ last.outcome[1] = "rc" /\ last.failed = {}) =>
        /\ last.success
        /\ last.write = "ok" => last.after = [kind |-> "text", val |-> last.cur]

----------------------------------------------------------------------------
(* C15 and C16 are about main.py: SpecMain *)

(* C15: in a sync pass every configured pair is reached by the loop over     *)
(* the pairs: whatever failed in one pair (missing source, destination that  *)
(* cannot be created, a copy that fails), the pairs after it are still       *)
(* processed.                                                                *)
C15_LaterPairsProcessed == mlast.ran => mlast.seen = 1..Len(pairs)

(* C16: once the polling loop has started, every poll is followed by         *)
(* another one: no poll, whatever went wrong in it, leaves the loop.         *)
C16_LoopNeverEnds == [][PollStep => mpc' = "loop"]_vars
----------------------------------------------------------------------------
(* C17 is about the volume lookups: SpecVolume *)

\* what the lookup is to return: the mount path of the first mounted volume
\* whose name contains the label, letter case ignored
FirstMatching(label, list) ==
    LET k == First({i \in 1..Len(list) :
                       list[i].mounted /\ Contains(Upper(label), Upper(list[i].name))})
    IN IF k = 0 THEN None ELSE MountOf(k)

(* C17: a volume lookup returns the mount path of the first mounted volume   *)
(* whose reported name contains the label as a case-insensitive substring,   *)
(* and None when no mounted volume has such a name or the listing failed.    *)
C17_VolumeResolution ==
    (vol.by # "none" /\ vol.unreadable = {}) =>
        vol.res = IF vol.fails THEN None ELSE FirstMatching(vol.label, vol.list)
----------------------------------------------------------------------------
(* C18 is about the rotation of robocopy.log: SpecRotate *)

\* a call of rotate_robocopy_log
RotateStep == rlog'.op = "rotate" /\ rlog' # rlog

(* C18: a rotation call with no log, or with a log below the size threshold, *)
(* changes nothing. A call with a log at or above the threshold renames it   *)
(* to one new archive and leaves no log behind, so that the next write       *)
(* starts a fresh file; archives are deleted only when their number exceeds  *)
(* MAX_LOG_FILES, the oldest by creation time first, and never the archive   *)
(* just created.                                                             *)
C18_Rotation ==
    [][RotateStep =>
        /\ (~rlog.log.here \/ rlog.log.size < MAX_ROBOCOPY_LOG_SIZE) =>
              rlog'.log = rlog.log /\ rlog'.arch = rlog.arch
        /\ rlog'.renamed =>
              LET new == [stamp |-> rlog.sec, born |-> rlog.log.born]
                  A == rlog.arch \cup {new}
              IN /\ rlog.log.size >= MAX_ROBOCOPY_LOG_SIZE
                 /\ new \notin rlog.arch
                 /\ new \in rlog'.arch
                 /\ ~rlog'.log.here
                 /\ rlog'.arch \subseteq A
                 /\ Cardinality(A) <= MAX_LOG_FILES => rlog'.arch = A
                 /\ \A d \in A \ rlog'.arch, k \in rlog'.arch : d.born < k.born]_vars
----------------------------------------------------------------------------
(* C19 is about the names the backends leave out: SpecJunk *)

(* C19: whichever backend runs, a file named Thumbs.db or *.tmp of the       *)
(* source is never copied: no destination holds such a file.                 *)
C19_JunkExcluded == \A p \in Pairs, f \in Junk : ~dst[p].f[f].here
----------------------------------------------------------------------------
(* C20 is about copy_with_python applied once: SpecPolicy *)

\* the walk met one I/O error, on file a of the root: shutil.copy2 or a stat
\* call raised for it, and no other call did
OneFileFailed ==
    /\ pol.op = "walker"
    /\ pol.fp["root"] \in {<<"stat", "a">>, <<"copy", "a">>, <<"copypart", "a">>}
    /\ pol.fp["sub"] = <<"none", "sub">>
    /\ "root" \in pol.failed

(* C20: when the walker meets an I/O error on one file, only that file is   *)
(* skipped: every other file that needed copying is copied, the returned    *)
(* count is the number of files copied, and the outcome is a success.       *)
C20_FileErrorSkipsOnlyThatFile ==
    OneFileFailed =>
        /\ \A f \in Files \ {"a"} :
              (src[1].f[f].here /\ NeedCopyPython(src[1].f[f], pol.before.f[f])) =>
                  dst[1].f[f] = src[1].f[f]
        /\ pol.count = Cardinality(pol.copied)
        /\ PythonSuccess(pol.count)
----------------------------------------------------------------------------
(* C21 is about the waits for external tools: SpecTools *)

(* C21: every call of an external tool is bounded by a timeout, so whatever  *)
(* the tools do, a job that has started comes to its end and the loop goes   *)
(* on to its next poll.                                                      *)
C21_JobEnds == (ext.pc = "job") ~> (ext.pc = "sleep")
----------------------------------------------------------------------------
(* C22 is about the value copy_files records: Spec *)

\* step: the backend of the attempt on the pair of last ends in a success and
\* the marker is written
RecordStep ==
    /\ last.phase = "scanned" /\ last'.phase = "done"
    /\ last'.success /\ last'.write = "ok"

\* step: copy_files on pair p scans the source and decides; the marker of p
\* was written by a success during whose copy the source was touched
ScanAfterBusyCopy(p) ==
    /\ wpc = "scan" /\ last'.pair = p /\ last'.phase # "none"
    /\ calm[p] = "rec"

(* C22 as stated: a success writes the maximum the scan found before the     *)
(* backend ran, and a source file that has, from a modification during the   *)
(* copy, a modification time greater than it makes the next call ask for a   *)
(* copy.                                                                     *)
C22_Original ==
    [][/\ RecordStep => marker'[last.pair] = FormatMtime(last.cur)
       /\ \A p \in Pairs :
             (/\ ScanAfterBusyCopy(p)
              /\ \E f \in Files : /\ src[p].f[f].here
                                   /\ src[p].f[f].mtime > marker[p].val) =>
                 last'.need]_vars

(* C22, amended: a success writes the maximum the scan found before the      *)
(* backend ran, also when the source changed while the backend ran; a source *)
(* file that has, from a modification during the copy, a modification time   *)
(* greater than it, and whose modification time the next scan can read,      *)
(* makes the next call ask for a copy.                                       *)
C22_ScanTimeValueRecorded ==
    [][/\ RecordStep => marker'[last.pair] = FormatMtime(last.cur)
       /\ \A p \in Pairs :
             (/\ ScanAfterBusyCopy(p)
              /\ \E f \in Scanned(src[p]) : src[p].f[f].mtime > marker[p].val) =>
                 last'.need]_vars

\* a call asks for a copy because of a file written while the backend of the
\* call before it, which recorded its success, was running
C22_Witness ==
    /\ JustScanned /\ last.need
    /\ calm[last.pair] = "rec"
    /\ last.before.kind = "text"
    /\ \E f \in Scanned(src[last.pair]) :
          /\ src[last.pair].f[f].mtime = last.cur
          /\ last.cur > last.before.val
----------------------------------------------------------------------------
(* C23 is about what a pass leaves of the destination: Spec *)

(* C23: no step deletes a file or a directory of a destination: the files    *)
(* present in the destination of a pair after the step include those        *)
(* present before it, also when files were deleted from the source.          *)
C23_DestinationOnlyGrows ==
    [][\A p \in Pairs :
          /\ \A f \in Files : dst[p].f[f].here => dst'[p].f[f].here
          /\ dst[p].dirs \subseteq dst'[p].dirs]_vars

\* a backend succeeded on a source from which a file was deleted that the
\* destination held before the attempt, and holds still
C23_Witness ==
    /\ Attempted /\ last.success /\ last.backend \in {"robocopy", "rsync"}
    /\ src[last.pair].exists
    /\ \E f \in Files : /\ ~src[last.pair].f[f].here
                         /\ dst[last.pair].f[f].here
                         /\ f \notin last.touched
----------------------------------------------------------------------------
(* C24 is about the values the marker takes: Spec *)

(* C24: as long as the marker of a pair holds a number, a step that changes  *)
(* it writes a number strictly greater than the one it held: the marker      *)
(* value never decreases, and a drop of the maximum modification time of the *)
(* source (the newest file deleted) does not rewrite it.                     *)
C24_MarkerNeverDecreases ==
    [][\A p \in Pairs :
          (/\ ParseMarker(marker[p]).ok /\ ParseMarker(marker'[p]).ok
           /\ marker'[p] # marker[p]) =>
              ParseMarker(marker'[p]).val > ParseMarker(marker[p]).val]_vars

\* a call found a marker holding a number and replaced it by a greater one
C24_Witness ==
    /\ Attempted /\ last.success
    /\ ParseMarker(last.before).ok /\ ParseMarker(last.after).ok
    /\ ParseMarker(last.after).val > ParseMarker(last.before).val
    /\ marker[last.pair] = last.after
----------------------------------------------------------------------------
(* C25 is about the archives of the application log: SpecArchives *)

\* step: Logger.log ran rotate_logs up to the end of its cleanup
RotatedStep == alog'.op = "rotated" /\ alog' # alog

(* C25: after rotate_logs ran, every archive <log file>.<date> whose date   *)
(* is more than LOG_RETENTION_DAYS days back is deleted, and the archives   *)
(* within the retention period are kept.                                    *)
C25_OldArchivesDeleted ==
    [][RotatedStep =>
          \A d \in Days :
             /\ d < alog'.day - LOG_RETENTION_DAYS => ArchivedLog(d) \notin alog'.files
             /\ (d >= alog'.day - LOG_RETENTION_DAYS /\ ArchivedLog(d) \in alog.files) =>
                   ArchivedLog(d) \in alog'.files]_vars
====
